---------------------------- MODULE Spec2Model ----------------------------
(***************************************************************************)
(* Model of the recursive rendering engine of tpl (src/renderer.go):       *)
(* Renderer.Execute / execute / getOutputPath / render, together with the  *)
(* file system they read and write.  Strings are TLA+ strings handled      *)
(* with Len, SubSeq and \o, so that suffix tests, path joins and path      *)
(* cleaning are computed character by character as the Go library does.    *)
(***************************************************************************)
EXTENDS Integers, Sequences, FiniteSets, TLC

(***************************************************************************)
(* Bounds of the model.                                                    *)
(***************************************************************************)
MaxInputs == 2
MaxSuffixes == 2

(***************************************************************************)
(* String primitives (package strings).                                    *)
(***************************************************************************)
CharAt(s, i) == SubSeq(s, i, i)

HasSuffix(s, suffix) ==
    /\ Len(s) >= Len(suffix)
    /\ SubSeq(s, Len(s) - Len(suffix) + 1, Len(s)) = suffix

TrimSuffix(s, suffix) ==
    IF HasSuffix(s, suffix) THEN SubSeq(s, 1, Len(s) - Len(suffix)) ELSE s

ContainsSlash(s) == \E i \in 1..Len(s) : CharAt(s, i) = "/"

\* index of the last "/" of s, 0 when there is none
LastSlash(s) ==
    LET idx == {i \in 1..Len(s) : CharAt(s, i) = "/"}
    IN  IF idx = {} THEN 0 ELSE CHOOSE i \in idx : \A j \in idx : j <= i

(***************************************************************************)
(* Path primitives (packages path and path/filepath on a "/" system).      *)
(***************************************************************************)
RECURSIVE SplitSlash(_)
\* the components of s between "/" characters, empty components included
SplitSlash(s) ==
    LET idx == {i \in 1..Len(s) : CharAt(s, i) = "/"}
    IN  IF idx = {} THEN <<s>>
        ELSE LET i == CHOOSE k \in idx : \A j \in idx : k <= j
             IN  <<SubSeq(s, 1, i - 1)>> \o SplitSlash(SubSeq(s, i + 1, Len(s)))

RECURSIVE CleanStack(_, _, _)
\* the lexical processing of Clean: drop "" and ".", resolve ".."
CleanStack(comps, stack, rooted) ==
    IF comps = <<>> THEN stack
    ELSE LET c == Head(comps)
             rest == Tail(comps)
         IN  IF c = "" \/ c = "." THEN CleanStack(rest, stack, rooted)
             ELSE IF c = ".."
                  THEN IF stack # <<>> /\ stack[Len(stack)] # ".."
                       THEN CleanStack(rest, SubSeq(stack, 1, Len(stack) - 1), rooted)
                       ELSE IF rooted THEN CleanStack(rest, stack, rooted)
                            ELSE CleanStack(rest, Append(stack, ".."), rooted)
                  ELSE CleanStack(rest, Append(stack, c), rooted)

RECURSIVE JoinSlash(_)
JoinSlash(comps) ==
    IF comps = <<>> THEN ""
    ELSE IF Len(comps) = 1 THEN comps[1]
    ELSE comps[1] \o "/" \o JoinSlash(Tail(comps))

Clean(p) ==
    IF p = "" THEN "."
    ELSE LET rooted == CharAt(p, 1) = "/"
             body == JoinSlash(CleanStack(SplitSlash(p), <<>>, rooted))
         IN  IF rooted THEN "/" \o body
             ELSE IF body = "" THEN "." ELSE body

\* filepath.Join of two elements: empty elements are ignored, the result is cleaned
Join(a, b) ==
    IF a = "" /\ b = "" THEN ""
    ELSE IF a = "" THEN Clean(b)
    ELSE IF b = "" THEN Clean(a)
    ELSE Clean(a \o "/" \o b)

RECURSIVE StripTrailingSlashes(_)
StripTrailingSlashes(p) ==
    IF Len(p) > 0 /\ CharAt(p, Len(p)) = "/"
    THEN StripTrailingSlashes(SubSeq(p, 1, Len(p) - 1))
    ELSE p

\* path.Base
Base(p) ==
    IF p = "" THEN "."
    ELSE LET q == StripTrailingSlashes(p)
             r == SubSeq(q, LastSlash(q) + 1, Len(q))
         IN  IF r = "" THEN "/" ELSE r

\* path.Dir
Dir(p) == Clean(SubSeq(p, 1, LastSlash(p)))


(***************************************************************************)
(* Sorting of the generated child paths.  sort.Sort is driven by the       *)
(* stringSorter type, whose Less compares two strings byte by byte.        *)
(***************************************************************************)
\* the characters of the model in increasing byte order
Alphabet == "-./0123456789abcdefghijklmnopqrstuvwxyz"

Code(c) == CHOOSE i \in 1..Len(Alphabet) : CharAt(Alphabet, i) = c

RECURSIVE Less(_, _)
\* stringSorter.Less: a < b in lexicographic byte order
Less(a, b) ==
    IF b = "" THEN FALSE
    ELSE IF a = "" THEN TRUE
    ELSE IF Head(a) = Head(b) THEN Less(Tail(a), Tail(b))
    ELSE Code(Head(a)) < Code(Head(b))

RECURSIVE Insert(_, _)
Insert(sorted, x) ==
    IF sorted = <<>> THEN <<x>>
    ELSE IF Less(x, Head(sorted)) THEN <<x>> \o sorted
    ELSE <<Head(sorted)>> \o Insert(Tail(sorted), x)

RECURSIVE SortStrings(_)
\* sort.Sort(names)
SortStrings(names) ==
    IF names = <<>> THEN <<>>
    ELSE Insert(SortStrings(Tail(names)), Head(names))

(***************************************************************************)
(* The file system.  A node is a directory or a regular file; a file has   *)
(* a content (the sequence of texts written to it) and, when it is used    *)
(* as a template, the way the template behaves.                            *)
(***************************************************************************)
DirNode == [kind |-> "dir", tpl |-> "none", content |-> <<>>]

FileNode(tpl, content) == [kind |-> "file", tpl |-> tpl, content |-> content]

\* one text written by a render: the template it came from, whole or cut short
Text(src, whole) == [src |-> src, whole |-> whole]

TemplateTree ==
    [p \in {".", "templates", "templates/deep", "dup", "foobar"} |-> DirNode]
    @@ [p \in {"templates/deep/ok2.txt.tpl", "templates/ok.txt.tpl",
               "dup/a", "dup/a.tmpl", "dup/a.tpl", "lib.tpl"} |-> FileNode("ok", <<>>)]
    @@ [p \in {"templates/fail.txt.tpl"} |-> FileNode("missingkey", <<>>)]
    @@ [p \in {"bad.tpl"} |-> FileNode("syntax", <<>>)]

OldOutput == [p \in {"rendered.txt"} |-> FileNode("ok", <<Text("old", TRUE)>>)]

\* the paths a caller may pass as inputs, and the output targets
InputPaths ==
    {"templates", "templates/deep", "templates/ok.txt.tpl", "dup", "bad.tpl", "missing.tpl"}

OutputTargets == {"-", "", "out/", "foobar", "rendered.txt", "new.txt"}

InputLists == UNION {[1..n -> InputPaths] : n \in 1..MaxInputs}

(***************************************************************************)
(* State.                                                                  *)
(***************************************************************************)
VARIABLES
    r,          \* the Renderer: Inputs, PreloadFiles, StopOnError
    target,     \* the out argument of the Execute call
    query,      \* a direct call of getOutputPath: [base, fn, path]
    fs,         \* the file system: cleaned path -> node
    pc,         \* "idle", "loop" (in execute's for loop), "render" (in render
                \* with the destination chosen), "done" (Execute returned)
    stack,      \* the activations of execute: <<[inputs, i, out]>>, innermost last
    cur,        \* the render unit in progress: [inames, oname]
    err,        \* the value Execute returned: "nil" or the kind of the error
    openReads,  \* number of read handles opened and not closed
    destOpen,   \* the non-stdout destinations open for writing, in open order
    stdoutOpen, \* os.Stdout is open
    stdout,     \* the texts written to standard output
    log,        \* the renders of the current Execute call, in order
    firstErr    \* the kind of the first failure of the current Execute call

vars == <<r, target, query, fs, pc, stack, cur, err, openReads, destOpen, stdoutOpen,
          stdout, log, firstErr>>

NoQuery == [base |-> "", fn |-> "", path |-> "none"]

NoRender == [inames |-> <<>>, oname |-> ""]

Top == stack[Len(stack)]

\* the input the innermost loop is at
CurrentInput == Top.inputs[Top.i]

AtInput == pc = "loop" /\ stack # <<>> /\ Top.i <= Len(Top.inputs)

(***************************************************************************)
(* File system operations.                                                 *)
(***************************************************************************)
\* os.Open(fn) succeeds
OpenOK(f, fn) ==
    /\ fn # ""
    /\ Clean(fn) \in DOMAIN f
    /\ HasSuffix(fn, "/") => f[Clean(fn)].kind = "dir"

\* fi.IsDir() of an opened path
IsDir(f, fn) == f[Clean(fn)].kind = "dir"

\* the entry names of directory d
Entries(f, d) ==
    {Base(p) : p \in {q \in DOMAIN f : q # "." /\ Dir(q) = Clean(d)}}

\* the orders in which f.Readdirnames(-1) may list the entries
Listings(f, d) ==
    LET es == Entries(f, d)
    IN  {l \in [1..Cardinality(es) -> es] : \A i, j \in DOMAIN l : i # j => l[i] # l[j]}

\* d and the directories above it, for a cleaned relative path
Ancestors(d) ==
    LET comps == SplitSlash(Clean(d))
    IN  {JoinSlash(SubSeq(comps, 1, k)) : k \in 1..Len(comps)}

\* os.MkdirAll(d) can succeed: nothing on the way is a regular file
MkdirAllOK(f, d) == \A a \in Ancestors(d) : a \in DOMAIN f => f[a].kind = "dir"

MkdirAll(f, d) == [a \in Ancestors(d) \ DOMAIN f |-> DirNode] @@ f

\* os.OpenFile(oname, O_WRONLY|O_CREATE|O_APPEND) can succeed
OpenFileOK(f, oname) ==
    /\ ~HasSuffix(oname, "/")
    /\ Clean(oname) \in DOMAIN f => f[Clean(oname)].kind = "file"
    /\ Dir(oname) \in DOMAIN f /\ f[Dir(oname)].kind = "dir"

(***************************************************************************)
(* Renderer.getOutputPath.                                                 *)
(***************************************************************************)
\* variant: the second test is not an else branch, both suffixes can go
StripBothSuffixes(fn) ==
    LET a == IF HasSuffix(fn, ".tpl") THEN TrimSuffix(fn, ".tpl") ELSE fn
    IN  IF HasSuffix(a, ".tmpl") THEN TrimSuffix(a, ".tmpl") ELSE a

\* the suffix stripping of getOutputPath
StripSuffix(fn) ==
    IF HasSuffix(fn, ".tpl") THEN TrimSuffix(fn, ".tpl")
    ELSE IF HasSuffix(fn, ".tmpl") THEN TrimSuffix(fn, ".tmpl")
    ELSE fn

\* variant: only "-" is taken for standard output, not the empty base
getOutputPathDashOnly(f, base, fn) ==
    IF base = "-" THEN "-"
    ELSE IF HasSuffix(base, "/") THEN Join(base, StripSuffix(fn))
    ELSE IF OpenOK(f, base) /\ IsDir(f, base) THEN Join(base, StripSuffix(fn))
    ELSE base

getOutputPath(f, base, fn) ==
    IF base = "" \/ base = "-" THEN "-"
    ELSE IF HasSuffix(base, "/") THEN Join(base, StripSuffix(fn))
    ELSE IF OpenOK(f, base) /\ IsDir(f, base) THEN Join(base, StripSuffix(fn))
    ELSE base

\* getOutputPath opens base to probe it, and does not close it: 1 handle, else 0
ProbeOpened(f, base) ==
    IF base # "" /\ base # "-" /\ ~HasSuffix(base, "/") /\ OpenOK(f, base) THEN 1 ELSE 0

(***************************************************************************)
(* Renderer.execute: the pieces of one loop iteration.                     *)
(***************************************************************************)
\* the template list of a render unit: the preloads, then the file
WithPreloads(fn) == r.PreloadFiles \o <<fn>>

\* variant: the child paths are left in listing order
ChildNamesUnsorted(dir, eis) == [i \in 1..Len(eis) |-> Join(dir, eis[i])]

\* the child paths of directory dir listed as eis, joined and sorted
ChildNames(dir, eis) == SortStrings([i \in 1..Len(eis) |-> Join(dir, eis[i])])

\* variant: the directory's base name is not appended
ChildOutFlat(out, dir) == out

\* variant: the base name is appended without the trailing separator
ChildOutNoSlash(out, dir) == IF HasSuffix(out, "/") THEN out \o Base(dir) ELSE out

\* the output target handed to the recursion into directory dir
ChildOut(out, dir) == IF HasSuffix(out, "/") THEN out \o Base(dir) \o "/" ELSE out

Advance(stk) == [stk EXCEPT ![Len(stk)].i = @ + 1]

\* variant: the error is dropped and the loop goes on
AfterStepContinue(stk, e) == [pc |-> "loop", stack |-> Advance(stk), err |-> "nil"]

\* "if err != nil { return err }" after every step, at every depth; else go on
AfterStep(stk, e) ==
    IF e = "nil"
    THEN [pc |-> "loop", stack |-> Advance(stk), err |-> "nil"]
    ELSE [pc |-> "done", stack |-> <<>>, err |-> e]

NoteFailure(e) == IF firstErr = "nil" THEN e ELSE firstErr

(***************************************************************************)
(* Renderer.render: the pieces.                                            *)
(***************************************************************************)
\* the error render returns before its destination is open, "nil" if none;
\* fault is the refusal of the environment, if any
RenderRefused(f, oname, fault) ==
    IF oname = "" THEN "blank"
    ELSE IF oname = "-" THEN "nil"
    ELSE IF ContainsSlash(oname) /\ (fault = "mkdir" \/ ~MkdirAllOK(f, Dir(oname)))
         THEN "mkdir"
    ELSE LET g == IF ContainsSlash(oname) THEN MkdirAll(f, Dir(oname)) ELSE f
         IN  IF fault = "openfile" \/ ~OpenFileOK(g, oname) THEN "openfile" ELSE "nil"

\* the file system after the os.MkdirAll of render, when it is called and succeeds
AfterMkdir(f, oname) ==
    IF oname # "" /\ oname # "-" /\ ContainsSlash(oname) /\ MkdirAllOK(f, Dir(oname))
    THEN MkdirAll(f, Dir(oname)) ELSE f

\* variant: the file is opened with O_TRUNC
OpenFileTrunc(f, oname) == [p \in {Clean(oname)} |-> FileNode("ok", <<>>)] @@ f

\* os.OpenFile with O_WRONLY|O_CREATE|O_APPEND: an existing file keeps its content
OpenFile(f, oname) ==
    IF Clean(oname) \in DOMAIN f THEN f
    ELSE [p \in {Clean(oname)} |-> FileNode("ok", <<>>)] @@ f

\* a write through a handle opened with O_APPEND
WriteAppend(f, oname, texts) == [f EXCEPT ![Clean(oname)].content = @ \o texts]

\* tpl.ParseFiles then tpl.Execute: "parse", "exec" or "nil"
TemplateOutcome(f, inames, strict) ==
    IF \E i \in 1..Len(inames) :
           \/ ~OpenOK(f, inames[i])
           \/ IsDir(f, inames[i])
           \/ f[Clean(inames[i])].tpl = "syntax"
    THEN "parse"
    ELSE IF strict /\ f[Clean(inames[Len(inames)])].tpl = "missingkey" THEN "exec"
    ELSE "nil"

\* variant: the destination is closed on the success path only
CloseOnSuccess(open, oname, e) ==
    IF oname = "-" \/ e # "nil" THEN open ELSE SubSeq(open, 1, Len(open) - 1)

\* the deferred out.Sync(); out.Close(), registered for non-stdout destinations
\* only: the destinations left open when render returns with outcome e
DeferredClose(open, oname, e) ==
    IF oname = "-" THEN open ELSE SubSeq(open, 1, Len(open) - 1)

\* os.Stdout stays open when render returns
StdoutAfter(isOpen, oname, e) == isOpen

(***************************************************************************)
(* Initial state: a Renderer is constructed, nothing has run.              *)
(***************************************************************************)
Init ==
    /\ r \in [Inputs : InputLists,
              PreloadFiles : {<<"lib.tpl">>},
              StopOnError : BOOLEAN]
    /\ target = ""
    /\ query = NoQuery
    /\ fs = OldOutput @@ TemplateTree
    /\ pc = "idle"
    /\ stack = <<>>
    /\ cur = NoRender
    /\ err = "nil"
    /\ openReads = 0
    /\ destOpen = <<>>
    /\ stdoutOpen = TRUE
    /\ stdout = <<>>
    /\ log = <<>>
    /\ firstErr = "nil"

(***************************************************************************)
(* Actions.                                                                *)
(***************************************************************************)
\* Renderer.Execute(out, values) is called
Execute(out) ==
    /\ pc = "idle"
    /\ pc' = "loop"
    /\ stack' = <<[inputs |-> r.Inputs, i |-> 1, out |-> out]>>
    /\ err' = "nil"
    /\ firstErr' = "nil"
    /\ log' = <<>>
    /\ target' = out
    /\ UNCHANGED <<r, query, fs, cur, openReads, destOpen, stdoutOpen, stdout>>

\* a step of execute fails with e after opening n read handles
FailWith(e, n) ==
    LET next == AfterStep(stack, e)
    IN  /\ pc' = next.pc
        /\ stack' = next.stack
        /\ err' = next.err
        /\ firstErr' = NoteFailure(e)
        /\ openReads' = openReads + n
        /\ UNCHANGED <<r, target, query, fs, cur, destOpen, stdoutOpen, stdout, log>>

\* os.Open(fn) fails
OpenFail ==
    /\ AtInput
    /\ ~OpenOK(fs, CurrentInput)
    /\ FailWith("open", 0)

\* f.Stat() fails
StatFail ==
    /\ AtInput
    /\ OpenOK(fs, CurrentInput)
    /\ FailWith("stat", 1)

\* f.Readdirnames(-1) fails
ReaddirFail ==
    /\ AtInput
    /\ OpenOK(fs, CurrentInput)
    /\ IsDir(fs, CurrentInput)
    /\ FailWith("readdir", 1)

\* the input is a directory: list it, sort the child paths, recurse
VisitDir ==
    /\ AtInput
    /\ OpenOK(fs, CurrentInput)
    /\ IsDir(fs, CurrentInput)
    /\ \E eis \in Listings(fs, CurrentInput) :
           stack' = Append(stack, [inputs |-> ChildNames(CurrentInput, eis),
                                   i |-> 1,
                                   out |-> ChildOut(Top.out, CurrentInput)])
    /\ openReads' = openReads + 1
    /\ UNCHANGED <<r, target, query, fs, pc, cur, err, destOpen, stdoutOpen, stdout, log, firstErr>>

AtFile == AtInput /\ OpenOK(fs, CurrentInput) /\ ~IsDir(fs, CurrentInput)

\* the output path of the render unit of the current input
UnitOutput == getOutputPath(fs, Top.out, Base(CurrentInput))

\* the top-level input the traversal is in
TopInput == stack[1].inputs[stack[1].i]

LogEntry(fn, oname, out, status) ==
    [top |-> TopInput, fn |-> fn, oname |-> oname, out |-> out, status |-> status]

\* the input is a file: render is called and returns before opening a destination
RenderRefuse ==
    /\ AtFile
    /\ \E fault \in {"none", "mkdir", "openfile"} :
         LET e == RenderRefused(fs, UnitOutput, fault)
             next == AfterStep(stack, e)
         IN  /\ e # "nil"
             /\ fs' = (IF e = "openfile" THEN AfterMkdir(fs, UnitOutput) ELSE fs)
             /\ pc' = next.pc
             /\ stack' = next.stack
             /\ err' = next.err
             /\ firstErr' = NoteFailure(e)
             /\ log' = Append(log, LogEntry(CurrentInput, UnitOutput, Top.out, e))
    /\ openReads' = openReads + 1 + ProbeOpened(fs, Top.out)
    /\ UNCHANGED <<r, target, query, cur, destOpen, stdoutOpen, stdout>>

\* the input is a file: render is called and has its destination
RenderEnter ==
    /\ AtFile
    /\ RenderRefused(fs, UnitOutput, "none") = "nil"
    /\ fs' = (IF UnitOutput = "-" THEN fs
              ELSE OpenFile(AfterMkdir(fs, UnitOutput), UnitOutput))
    /\ destOpen' = (IF UnitOutput = "-" THEN destOpen ELSE Append(destOpen, UnitOutput))
    /\ cur' = [inames |-> WithPreloads(CurrentInput), oname |-> UnitOutput]
    /\ pc' = "render"
    /\ openReads' = openReads + 1 + ProbeOpened(fs, Top.out)
    /\ UNCHANGED <<r, target, query, stack, err, stdoutOpen, stdout, log, firstErr>>

\* render parses and executes the templates, writes, and returns with e
RenderReturn(e, texts) ==
    LET next == AfterStep(stack, e)
    IN  /\ pc = "render"
        /\ TemplateOutcome(fs, cur.inames, r.StopOnError) = e
        /\ IF cur.oname = "-"
           THEN stdout' = stdout \o texts /\ fs' = fs
           ELSE fs' = WriteAppend(fs, cur.oname, texts) /\ stdout' = stdout
        /\ destOpen' = DeferredClose(destOpen, cur.oname, e)
        /\ stdoutOpen' = StdoutAfter(stdoutOpen, cur.oname, e)
        /\ log' = Append(log, LogEntry(CurrentInput, cur.oname, Top.out, e))
        /\ cur' = NoRender
        /\ pc' = next.pc
        /\ stack' = next.stack
        /\ err' = next.err
        /\ firstErr' = (IF e = "nil" THEN firstErr ELSE NoteFailure(e))
        /\ UNCHANGED <<r, target, query, openReads>>

RenderOK == RenderReturn("nil", <<Text(CurrentInput, TRUE)>>)

RenderParseFail == RenderReturn("parse", <<>>)

\* the execution fails after writing some of the text, or none
RenderExecFail ==
    \E some \in BOOLEAN :
        RenderReturn("exec", IF some THEN <<Text(CurrentInput, FALSE)>> ELSE <<>>)

\* the loop of an activation is over: return nil to the caller
ReturnNil ==
    /\ pc = "loop"
    /\ stack # <<>>
    /\ Top.i > Len(Top.inputs)
    /\ IF Len(stack) = 1
       THEN /\ pc' = "done"
            /\ stack' = <<>>
            /\ err' = "nil"
       ELSE /\ pc' = "loop"
            /\ stack' = Advance(SubSeq(stack, 1, Len(stack) - 1))
            /\ err' = err
    /\ UNCHANGED <<r, target, query, fs, cur, openReads, destOpen, stdoutOpen, stdout, log, firstErr>>

Next ==
    \/ \E out \in OutputTargets : Execute(out)
    \/ OpenFail
    \/ StatFail
    \/ ReaddirFail
    \/ VisitDir
    \/ RenderRefuse
    \/ RenderEnter
    \/ RenderOK
    \/ RenderParseFail
    \/ RenderExecFail
    \/ ReturnNil

Spec == Init /\ [][Next]_vars

(***************************************************************************)
(* getOutputPath on its own: a base and a file name are drawn, the         *)
(* function is applied once.                                               *)
(***************************************************************************)
Suffixes == {".tpl", ".tmpl", ".txt"}

RECURSIVE Concat(_)
Concat(ss) == IF ss = <<>> THEN "" ELSE Head(ss) \o Concat(Tail(ss))

\* x followed by up to MaxSuffixes suffixes
FileNames == {"x" \o Concat(ss) : ss \in UNION {[1..n -> Suffixes] : n \in 0..MaxSuffixes}}

Bases == {"", "-", "out/", "templates/deep/", "foobar", "rendered.txt", "new.txt"}

InitPath ==
    /\ r = [Inputs |-> <<>>, PreloadFiles |-> <<>>, StopOnError |-> FALSE]
    /\ target = ""
    /\ query \in [base : Bases, fn : FileNames, path : {"none"}]
    /\ fs = OldOutput @@ TemplateTree
    /\ pc = "idle"
    /\ stack = <<>>
    /\ cur = NoRender
    /\ err = "nil"
    /\ openReads = 0
    /\ destOpen = <<>>
    /\ stdoutOpen = TRUE
    /\ stdout = <<>>
    /\ log = <<>>
    /\ firstErr = "nil"

CallGetOutputPath ==
    /\ query.path = "none"
    /\ query' = [query EXCEPT !.path = getOutputPath(fs, query.base, query.fn)]
    /\ openReads' = openReads + ProbeOpened(fs, query.base)
    /\ UNCHANGED <<r, target, fs, pc, stack, cur, err, destOpen, stdoutOpen, stdout,
                   log, firstErr>>

NextPath == CallGetOutputPath

SpecPath == InitPath /\ [][NextPath]_vars

(***************************************************************************)
(* Vocabulary of the properties.                                           *)
(***************************************************************************)
Done == pc = "done"

Succeeded == pc = "done" /\ err = "nil"

IsPrefix(a, b) == Len(a) <= Len(b) /\ SubSeq(b, 1, Len(a)) = a

\* the regular files of the file system
Files == {p \in DOMAIN fs : fs[p].kind = "file"}

InitialFS == OldOutput @@ TemplateTree

InitialContent(p) == IF p \in DOMAIN InitialFS THEN InitialFS[p].content ELSE <<>>

\* the position of file fn below top-level input top, from the base name of top on:
\* "" for a top-level file, "d/s1/.../sk/" below a top-level directory with base d
MirrorDir(top, fn) ==
    IF fn = top THEN ""
    ELSE LET rel == SubSeq(fn, Len(Clean(top)) + 1, Len(fn))
         IN  Base(top) \o SubSeq(rel, 1, LastSlash(rel))

\* the child paths of directory d in increasing lexicographic order
Ordered(f, d) ==
    LET ps == {Join(d, e) : e \in Entries(f, d)}
    IN  CHOOSE l \in [1..Cardinality(ps) -> ps] :
            \A i, j \in DOMAIN l : i < j => Less(l[i], l[j])

RECURSIVE Walk(_, _)
\* the regular files under inputs in depth-first pre-order: inputs in the given
\* order, the entries of a directory in lexicographic order
Walk(f, inputs) ==
    IF inputs = <<>> THEN <<>>
    ELSE LET h == Head(inputs)
             here == IF ~OpenOK(f, h) THEN <<>>
                     ELSE IF IsDir(f, h) THEN Walk(f, Ordered(f, h))
                     ELSE <<h>>
         IN  here \o Walk(f, Tail(inputs))

Rendered == [i \in DOMAIN log |-> log[i].fn]

(***************************************************************************)
(* C1: with an output target that ends in "/", every file reached is       *)
(* rendered to the target followed by its mirrored position and its        *)
(* stripped name; the directory `templates` with target out/ gives         *)
(* out/templates/deep/ok2.txt and out/templates/ok.txt, its children       *)
(* passed directly give out/deep/ok2.txt and out/ok.txt.                   *)
(***************************************************************************)
C1_MirrorsPosition ==
    HasSuffix(target, "/") =>
        /\ \A i \in DOMAIN log :
               log[i].oname = target \o MirrorDir(log[i].top, log[i].fn)
                                     \o StripSuffix(Base(log[i].fn))
        /\ (Succeeded /\ r.Inputs = <<"templates">> /\ target = "out/") =>
               /\ {"out/templates/deep/ok2.txt", "out/templates/ok.txt"} \subseteq Files
               /\ {"out/deep/ok2.txt", "out/ok.txt"} \cap DOMAIN fs = {}
        /\ (Succeeded /\ r.Inputs = <<"templates/deep", "templates/ok.txt.tpl">>
                      /\ target = "out/") =>
               /\ {"out/deep/ok2.txt", "out/ok.txt"} \subseteq Files
               /\ "out/templates" \notin DOMAIN fs

C1_Witness ==
    /\ Succeeded
    /\ r.Inputs = <<"templates">>
    /\ target = "out/"
    /\ "out/templates/deep/ok2.txt" \in Files

(***************************************************************************)
(* C2: with an existing directory as output target, given without a        *)
(* trailing separator, the input tree is mirrored under it as it is with   *)
(* a trailing separator: test/templates with -out foobar gives             *)
(* foobar/templates/deep/ok2.txt, foobar/templates/fail.txt and            *)
(* foobar/templates/ok.txt.                                                *)
(***************************************************************************)
C2_MirrorsWithoutSeparator ==
    (target = "foobar") =>
        /\ \A i \in DOMAIN log :
               log[i].oname = "foobar/" \o MirrorDir(log[i].top, log[i].fn)
                                        \o StripSuffix(Base(log[i].fn))
        /\ (Succeeded /\ r.Inputs = <<"templates">>) =>
               {"foobar/templates/deep/ok2.txt", "foobar/templates/fail.txt",
                "foobar/templates/ok.txt"} \subseteq Files

(***************************************************************************)
(* C3: with output target "-" or "", the target handed down the recursion  *)
(* stays as given, every render unit's output path is "-", no destination  *)
(* is opened and nothing is created in the file system.                    *)
(***************************************************************************)
C3_StdoutFlowsThrough ==
    (pc # "idle" /\ target \in {"", "-"}) =>
        /\ \A k \in DOMAIN stack : stack[k].out = target
        /\ \A i \in DOMAIN log : log[i].oname = "-"
        /\ pc = "render" => cur.oname = "-"
        /\ destOpen = <<>>
        /\ fs = InitialFS

C3_Witness ==
    /\ Succeeded
    /\ target = ""
    /\ r.Inputs = <<"templates", "dup">>
    /\ Len(stdout) = 6

(***************************************************************************)
(* C4: Execute returns the first error and stops there: after a failure    *)
(* nothing more is opened, rendered or written, and what was written       *)
(* before stays.                                                           *)
(***************************************************************************)
C4_FirstErrorStops ==
    [][/\ firstErr # "nil" =>
              UNCHANGED <<fs, stdout, log, openReads, destOpen, firstErr>>
       /\ pc' = "done" => err' = firstErr'
       /\ firstErr' # "nil" => pc' = "done"
       /\ \A p \in Files : p \in DOMAIN fs' /\ IsPrefix(fs[p].content, fs'[p].content)]_vars

C4_Witness ==
    /\ Done
    /\ err = "exec"
    /\ target = "out/"
    /\ r.Inputs = <<"templates", "dup">>
    /\ "out/templates/deep/ok2.txt" \in Files
    /\ "out/templates/ok.txt" \notin DOMAIN fs
    /\ "out/dup" \notin DOMAIN fs

(***************************************************************************)
(* C5: the renders of a call follow the depth-first pre-order of the       *)
(* inputs: top-level inputs in the caller's order, duplicates kept, the    *)
(* entries of a directory in lexicographic order of their joined paths     *)
(* whatever the listing order, a subtree before the next sibling.          *)
(***************************************************************************)
C5_PreOrder ==
    /\ IsPrefix(Rendered, Walk(fs, r.Inputs))
    /\ Succeeded => Rendered = Walk(fs, r.Inputs)
    /\ \A k \in DOMAIN stack : k = 1 => stack[k].inputs = r.Inputs

C5_Witness ==
    /\ Succeeded
    /\ r.Inputs = <<"templates/ok.txt.tpl", "templates">>
    /\ Rendered = <<"templates/ok.txt.tpl", "templates/deep/ok2.txt.tpl",
                    "templates/fail.txt.tpl", "templates/ok.txt.tpl">>

(***************************************************************************)
(* C6: a render never truncates or replaces its destination: a file holds  *)
(* what it held before the first render, followed by the outputs of the    *)
(* successful renders that resolved to it, in render order.                *)
(***************************************************************************)
C6_Appends ==
    \A p \in Files :
        LET ToP(e) == e.oname # "-" /\ Clean(e.oname) = p /\ e.status = "nil"
            Whole(t) == t.whole
            done == SelectSeq(log, ToP)
            whole == SelectSeq(fs[p].content, Whole)
        IN  /\ whole = InitialContent(p) \o [i \in DOMAIN done |-> Text(done[i].fn, TRUE)]
            /\ IsPrefix(whole, fs[p].content)

C6_Witness ==
    /\ Succeeded
    /\ target = "rendered.txt"
    /\ fs["rendered.txt"].content =
           <<Text("old", TRUE), Text("templates/ok.txt.tpl", TRUE),
             Text("templates/ok.txt.tpl", TRUE)>>

(***************************************************************************)
(* C7 as stated: after a successful Execute with a file-system target, no  *)
(* two input files of the call have the same output path.                  *)
(***************************************************************************)
C7_DistinctArtifacts ==
    (Succeeded /\ target \notin {"", "-"}) =>
        \A i, j \in DOMAIN log :
            log[i].fn # log[j].fn => log[i].oname # log[j].oname

(***************************************************************************)
(* C7 amended: every visit of a regular file is rendered exactly once, to  *)
(* one output path; with a target that ends in "/", two renders have the   *)
(* same output path only if the files have the same mirrored position and  *)
(* the same name once the suffix is stripped.                              *)
(***************************************************************************)
C7_OneArtifactPerVisit ==
    /\ Succeeded => Len(log) = Len(Walk(fs, r.Inputs))
    /\ HasSuffix(target, "/") =>
           \A i, j \in DOMAIN log :
               log[i].oname = log[j].oname =>
                   /\ MirrorDir(log[i].top, log[i].fn) = MirrorDir(log[j].top, log[j].fn)
                   /\ StripSuffix(Base(log[i].fn)) = StripSuffix(Base(log[j].fn))

C7_Witness ==
    /\ Succeeded
    /\ target = "out/"
    /\ r.Inputs = <<"dup", "templates">>
    /\ Len(fs["out/dup/a"].content) = 3

(***************************************************************************)
(* C8: at most one non-stdout destination is open at any point; when       *)
(* render has returned, with success or with a parse or execution error,   *)
(* its destination is closed; standard output is never closed.             *)
(***************************************************************************)
C8_DestinationScoped ==
    /\ Len(destOpen) <= 1
    /\ pc # "render" => destOpen = <<>>
    /\ pc = "render" => destOpen = (IF cur.oname = "-" THEN <<>> ELSE <<cur.oname>>)
    /\ stdoutOpen

C8_Witness ==
    /\ Done
    /\ err = "parse"
    /\ log # <<>>
    /\ log[Len(log)].status = "parse"
    /\ log[Len(log)].oname = "out/bad"
    /\ destOpen = <<>>

(***************************************************************************)
(* C9: for a base other than "" and "-" whose output path uses the file    *)
(* name, the name used is the file name less one trailing .tpl if it ends  *)
(* in .tpl, else less one trailing .tmpl if it ends in .tmpl, else the     *)
(* file name: one suffix at most, stripped once.                           *)
(***************************************************************************)
C9_StripsOnce ==
    LET fn == query.fn
        base == query.base
        used == IF HasSuffix(fn, ".tpl") THEN SubSeq(fn, 1, Len(fn) - 4)
                ELSE IF HasSuffix(fn, ".tmpl") THEN SubSeq(fn, 1, Len(fn) - 5)
                ELSE fn
    IN  (query.path # "none" /\ base \notin {"", "-"}) =>
            /\ query.path \in {base, Clean(base) \o "/" \o used}
            /\ (HasSuffix(base, "/") \/ base = "foobar") =>
                   query.path = Clean(base) \o "/" \o used
            /\ (base = "out/" /\ fn = "x.tpl.tmpl") => query.path = "out/x.tpl"
            /\ (base = "out/" /\ fn = "x.tmpl.tpl") => query.path = "out/x.tmpl"
            /\ (base = "out/" /\ fn = "x.tpl.tpl") => query.path = "out/x.tpl"
            /\ (base = "out/" /\ fn = "x.txt") => query.path = "out/x.txt"

C9_Witness ==
    /\ query.base = "foobar"
    /\ query.fn = "x.tmpl.tpl"
    /\ query.path = "foobar/x.tmpl"

(***************************************************************************)
(* C10: every handle Execute opens for reading is closed by the time       *)
(* Execute returns.                                                        *)
(***************************************************************************)
C10_ReadHandlesReleased == Done => openReads = 0

=============================================================================
